---- MODULE Spec2Model ----
(***************************************************************************)
(* Roadmap builder: date interpretation and grid positioning.              *)
(*                                                                         *)
(* The model follows RoadmapGenerator (generateStory, generateEpic,        *)
(* generateBTLDateAddedBox), DateUtility and ConfigUtility, and the three  *)
(* DateUtility functions a date picker field is read with (parseTextValue, *)
(* convertEuropeanToISO, convertMonthToEndDate).                           *)
(*                                                                         *)
(* Strings are modelled by what the code's regular expressions and parsers *)
(* can tell apart.  A date-or-month value is a record                      *)
(*   fmt = "none"   the field is missing (undefined / null)                *)
(*         "empty"  the empty string                                       *)
(*         "junk"   a non-empty string with no digit, '-', '/' or month    *)
(*                  name in it (e.g. "TBD")                                *)
(*         "iso"    YYYY-MM-DD                                             *)
(*         "eus"    D/M, D/M/YY or D/M/YYYY                                *)
(*         "eud"    D-M, D-M-YY or D-M-YYYY                                *)
(*         "mon"    a month name; nm tells 3-letter/full and the case      *)
(*         "mond"   a month name with a day number ("FEB 8", "8th feb")    *)
(*   d, m, y  the numbers written in the string; yl is the number of year  *)
(*            digits written (0 when the year is left out).                *)
(*                                                                         *)
(* A JavaScript Date is the record [valid, y, m, d] of its local calendar  *)
(* date.  The host time zone is taken to be UTC, so that the instant       *)
(* "midnight UTC" of new Date("YYYY-MM-DD") and "local midnight" of        *)
(* new Date("YYYY-MM-DDT00:00:00") show the same calendar date.            *)
(*                                                                         *)
(* Two things the language leaves to the engine are environment choices:   *)
(*   lenientDates  whether an ISO string naming a day 29..31 that the      *)
(*                 month does not have rolls over into the next month (V8) *)
(*                 or is an Invalid Date (ECMA-262 "illegal element        *)
(*                 values", SpiderMonkey, JavaScriptCore);                 *)
(*   dashUS        whether the legacy (non-ISO) parser reads "A-B[-C]" as  *)
(*                 month A, day B, like "A/B[/C]", or rejects it.          *)
(***************************************************************************)
EXTENDS Integers, Sequences, FiniteSets, TLC

VARIABLES
    roadmapYear,      \* RoadmapGenerator.roadmapYear
    now,              \* new Date().getFullYear(): the wall-clock year
    lenientDates,     \* engine: out-of-range ISO days roll over
    dashUS,           \* engine: the legacy parser accepts A-B[-C]
    searchRange,      \* RoadmapGenerator.searchRange (NoRange = null)
    forceTextBelow,   \* what getConfigUtility().shouldForceTextBelow() answers
    tempForceTextBelow,        \* global tempForceTextBelow
    searchTempForceTextBelow,  \* global searchTempForceTextBelow
    input,            \* the story record as it was handed to the generator
    story,            \* the story record object (generateStory writes to it)
    bar,              \* what generateStory emitted
    box,              \* the annotation box generateEpic emitted
    btlBox,           \* the box generateBTLDateAddedBox emitted
    previous,         \* the bar the same record was given by the render before
    previousBox,      \* the annotation box the render before gave
    text,             \* the text typed into a date field of the date picker
    isEndDateField,   \* the field is the end-date field
    textYear,         \* the roadmapYear argument of the call (0 = null)
    parsedText,       \* what parseTextValue returned
    converted,        \* what convertEuropeanToISO returned
    monthEnd,         \* what convertMonthToEndDate returned
    pc,
    apiProvider,          \* AIAgentUtility.apiProvider
    apiKey,               \* AIAgentUtility.apiKey
    conversationHistory,  \* AIAgentUtility.conversationHistory
    currentStoryContext,  \* AIAgentUtility.currentStoryContext
    localStorage,         \* the aiAgent_<provider>_key items of localStorage
    pending,              \* the sendMessage calls awaiting their API response
    sent,                 \* how many messages the user has sent
    lastSaved,            \* the provider and key of the last saveConfiguration
    agentPc               \* "loaded" right after the page has loaded

vars == <<roadmapYear, now, lenientDates, dashUS, searchRange, forceTextBelow,
          tempForceTextBelow, searchTempForceTextBelow, input, story, bar,
          box, btlBox, previous, previousBox, text, isEndDateField, textYear, parsedText,
          converted, monthEnd, pc, apiProvider, apiKey, conversationHistory,
          currentStoryContext, localStorage, pending, sent, lastSaved, agentPc>>

\* the state of the AI agent panel
agentVars ==
    <<apiProvider, apiKey, conversationHistory, currentStoryContext,
      localStorage, pending, sent, lastSaved, agentPc>>

\* the state of the date picker
pickerVars ==
    <<text, isEndDateField, textYear, parsedText, converted, monthEnd>>

(***************************************************************************)
(* Values                                                                  *)
(***************************************************************************)
Val(f, d, m, y, yl, nm) ==
    [fmt |-> f, d |-> d, m |-> m, y |-> y, yl |-> yl, nm |-> nm]

None  == Val("none", 0, 0, 0, 0, "")
Empty == Val("empty", 0, 0, 0, 0, "")
Junk  == Val("junk", 0, 0, 0, 0, "")
Iso(y, m, d) == Val("iso", d, m, y, 4, "")
Eu(sep, d, m, y, yl) == Val(sep, d, m, y, yl, "")
Mon(m, nm) == Val("mon", 0, m, 0, 0, nm)
MonDay(m, d, nm) == Val("mond", d, m, 0, 0, nm)

\* JavaScript truthiness of a string-or-undefined value
Truthy(v) == v.fmt \notin {"none", "empty"}

\* a || b
Or(a, b) == IF Truthy(a) THEN a ELSE b

\* /^\d{1,2}[\/\-]\d{1,2}([\/\-]\d{2,4})?$/
IsEuropean(v) == v.fmt \in {"eus", "eud"}

\* /^\d{4}-\d{2}-\d{2}$/
IsISO(v) == v.fmt = "iso"

\* String.includes('-')
HasDash(v) == v.fmt \in {"iso", "eud"}

\* String.toUpperCase() of a month name
ToUpper(v) ==
    IF v.fmt = "mon"
    THEN [v EXCEPT !.nm = IF v.nm \in {"short", "Short", "SHORT"} THEN "SHORT"
                          ELSE "FULL"]
    ELSE v

(***************************************************************************)
(* Calendar and the JavaScript Date object                                 *)
(***************************************************************************)
IsLeapYear(y) == (y % 4 = 0 /\ y % 100 # 0) \/ (y % 400 = 0)

DaysInMonth(y, m) ==
    IF m = 2 THEN (IF IsLeapYear(y) THEN 29 ELSE 28)
    ELSE IF m \in {4, 6, 9, 11} THEN 30 ELSE 31

InvalidDate == [valid |-> FALSE, y |-> 0, m |-> 0, d |-> 0]

MkDate(y, m, d) == [valid |-> TRUE, y |-> y, m |-> m, d |-> d]

\* MakeDay: day d of month m, which has dim days; a day past the end of the
\* month runs into the next month
RollOverIn(y, m, d, dim) ==
    IF d <= dim THEN MkDate(y, m, d)
    ELSE IF m = 12 THEN MkDate(y + 1, 1, d - dim)
    ELSE MkDate(y, m + 1, d - dim)

RollOver(y, m, d) == RollOverIn(y, m, d, DaysInMonth(y, m))

\* new Date("YYYY-MM-DD") and new Date("YYYY-MM-DDT00:00:00")
NewDateISO(y, m, d) ==
    IF m \notin 1..12 \/ d \notin 1..31 THEN InvalidDate
    ELSE IF lenientDates THEN RollOver(y, m, d)
    ELSE IF d <= DaysInMonth(y, m) THEN MkDate(y, m, d)
    ELSE InvalidDate

\* the year the legacy (non-ISO) parser gives a string
LegacyYear(v) ==
    IF v.yl = 0 THEN 2001
    ELSE IF v.yl = 2 THEN (IF v.y < 50 THEN 2000 + v.y ELSE 1900 + v.y)
    ELSE v.y

\* new Date("A/B[/C]"): the legacy parser reads month A, day B, and treats a
\* day past the end of the month as the ISO parser does
NewDateLegacy(v) ==
    IF v.fmt = "eus" \/ (v.fmt = "eud" /\ dashUS)
    THEN NewDateISO(LegacyYear(v), v.d, v.m)
    ELSE InvalidDate

\* new Date(string)
NewDate(v) ==
    IF v.fmt = "iso" THEN NewDateISO(v.y, v.m, v.d)
    ELSE IF IsEuropean(v) THEN NewDateLegacy(v)
    ELSE InvalidDate

(***************************************************************************)
(* DateUtility                                                             *)
(***************************************************************************)
\* the day, month and year convertEuropeanToISO reads (lines 85-111)
europeanParts(v, ry) ==
    [day   |-> IF v.m > 12 /\ v.d <= 12 THEN v.m ELSE v.d,
     month |-> IF v.m > 12 /\ v.d <= 12 THEN v.d ELSE v.m,
     year  |-> IF v.yl = 0 THEN (IF ry # 0 THEN ry ELSE now)
               ELSE IF v.yl = 2 THEN 2000 + v.y
               ELSE v.y]

\* lines 96-119: the range checks and the calendar check on the parts
europeanToISO(v, p) ==
    IF p.day < 1 \/ p.day > 31 \/ p.month < 1 \/ p.month > 12 THEN v
    ELSE IF NewDateISO(p.year, p.month, p.day).valid
    THEN Iso(p.year, p.month, p.day)
    ELSE v

\* convertEuropeanToISO(dateStr, roadmapYear): ry = 0 stands for null
convertEuropeanToISO(v, ry) ==
    IF ~IsEuropean(v) THEN v ELSE europeanToISO(v, europeanParts(v, ry))

\* parseDateSafe(dateStr): InvalidDate stands for null
parseDateSafe(v) ==
    IF ~Truthy(v) THEN InvalidDate
    ELSE IF IsEuropean(v) THEN NewDate(convertEuropeanToISO(v, 0))
    ELSE IF IsISO(v) THEN NewDateISO(v.y, v.m, v.d)
    ELSE InvalidDate

\* date && date.getDate() >= lo
dayFrom(date, lo) == date.valid /\ date.d >= lo

\* date && lo <= date.getDate() <= hi
dayBetween(date, lo, hi) == date.valid /\ date.d >= lo /\ date.d <= hi

isEndOfMonth(v) == dayFrom(parseDateSafe(v), 26)

isStartOfMonth(v) == dayBetween(parseDateSafe(v), 1, 3)

isEndOfPreviousMonth(v) == dayBetween(parseDateSafe(v), 1, 3)

\* lines 438-444: setMonth(getMonth() - 1), then the month read back; 0 for
\* null
previousMonth(date) ==
    IF ~date.valid THEN 0
    ELSE IF date.m = 1 THEN RollOver(date.y - 1, 12, date.d).m
    ELSE RollOver(date.y, date.m - 1, date.d).m

\* getPreviousMonthName(dateStr): the month number, 0 for null
getPreviousMonthName(v) == previousMonth(parseDateSafe(v))

\* roadmapYear || new Date().getFullYear(): ry = 0 stands for null
currentYearOf(ry) == IF ry # 0 THEN ry ELSE now

\* the last day of a month when no year is a leap year
lastDayOfMonth_NoLeap(y, m) ==
    IF m = 2 THEN 28 ELSE IF m \in {4, 6, 9, 11} THEN 30 ELSE 31

\* new Date(y, monthIndex + 1, 0).getDate(): day 0 of the month after m
lastDayOfMonth(y, m) == DaysInMonth(y, m)

\* lines 213-228: a month name, with the day number dayValue or none (0)
monthTextToISO(m, dayValue, isEnd, currentYear) ==
    Iso(currentYear, m,
        IF dayValue # 0 /\ dayValue >= 1 /\ dayValue <= 31 THEN dayValue
        ELSE IF isEnd THEN lastDayOfMonth(currentYear, m)
        ELSE 1)

\* textParts with a pivot: two-digit years above 30 are of the last century
textParts_Pivot(v, currentYear) ==
    [day   |-> IF v.m > 12 /\ v.d <= 12 THEN v.m ELSE v.d,
     month |-> IF v.m > 12 /\ v.d <= 12 THEN v.d ELSE v.m,
     year  |-> IF v.yl = 0 THEN currentYear
               ELSE IF v.y <= 30 THEN 2000 + v.y
               ELSE IF v.y < 100 THEN 1900 + v.y
               ELSE v.y]

\* lines 234-259: the day, month and year parseTextValue reads
textParts(v, currentYear) ==
    [day   |-> IF v.m > 12 /\ v.d <= 12 THEN v.m ELSE v.d,
     month |-> IF v.m > 12 /\ v.d <= 12 THEN v.d ELSE v.m,
     year  |-> IF v.yl = 0 THEN currentYear
               ELSE IF v.y < 100 THEN 2000 + v.y
               ELSE v.y]

\* lines 248-276: the range checks, and the parts read back from testDate
numericTextToISOAt(p, testDate) ==
    IF p.day < 1 \/ p.day > 31 \/ p.month < 1 \/ p.month > 12 THEN Empty
    ELSE IF \/ ~testDate.valid
            \/ testDate.y # p.year
            \/ testDate.m # p.month
            \/ testDate.d # p.day
    THEN Empty
    ELSE Iso(p.year, p.month, p.day)

numericTextToISO(p) == numericTextToISOAt(p, NewDateISO(p.year, p.month, p.day))

\* parseTextValue(value, isEndDateField, roadmapYear): Empty stands for ''
parseTextValue(v, isEnd, ry) ==
    IF ~Truthy(v) THEN Empty
    ELSE IF v.fmt \in {"mon", "mond"}
    THEN monthTextToISO(v.m, v.d, isEnd, currentYearOf(ry))
    ELSE IF IsEuropean(v) THEN numericTextToISO(textParts(v, currentYearOf(ry)))
    ELSE Empty

\* lines 678-691: the last days of the months
monthEndDays(febDays) == <<31, febDays, 31, 30, 31, 30, 31, 31, 30, 31, 30, 31>>

\* lines 671-694 for a month name: DD/MM/YY
monthEndOf(m, currentYear) ==
    Eu("eus", monthEndDays(IF IsLeapYear(currentYear) THEN 29 ELSE 28)[m], m,
       currentYear % 100, 2)

\* convertMonthToEndDate(monthName, roadmapYear)
convertMonthToEndDate(v, ry) ==
    IF v.fmt = "mon" THEN monthEndOf(v.m, currentYearOf(ry)) ELSE v

(***************************************************************************)
(* ConfigUtility                                                           *)
(***************************************************************************)
MAX_COLUMNS == 120

BASE_MULTIPLIER == 12

\* MONTHS.GRID_POSITIONS, by month number
GRID_POSITIONS == <<1, 11, 21, 31, 41, 51, 61, 71, 81, 91, 101, 111>>

\* getMonthGridPosition that looks the name up as it is written
getMonthGridPosition_NoUpper(v) ==
    IF v.fmt = "mon" /\ v.nm \in {"SHORT", "FULL"} THEN GRID_POSITIONS[v.m] ELSE 1

\* getMonthGridPosition(month) for a string; the call throws on undefined
getMonthGridPosition(v) ==
    IF v.fmt = "mon" THEN GRID_POSITIONS[v.m] ELSE 1

\* getMonthGridPosition(DateUtility.getMonthName(n)): getMonthName answers
\* 'JAN' for a number outside 1..12
monthNumberToGrid(n) ==
    IF n \in 1..12 THEN GRID_POSITIONS[n] ELSE GRID_POSITIONS[1]

TEXT_BOX_WIDTHS == <<16, 26, 38, 50, 62, 74, 85>>

\* calculateTextBoxWidth answering MIN_LARGE_WIDTH for every count above 7
calculateTextBoxWidth_Flat(totalItems) ==
    IF totalItems \in 1..7 THEN TEXT_BOX_WIDTHS[totalItems] ELSE TEXT_BOX_WIDTHS[7]

\* lines 1250-1256
calculateTextBoxWidth(totalItems) ==
    IF totalItems <= 7
    THEN (IF totalItems \in 1..7 THEN TEXT_BOX_WIDTHS[totalItems]
          ELSE TEXT_BOX_WIDTHS[1])
    ELSE TEXT_BOX_WIDTHS[7] + (totalItems - 7) * BASE_MULTIPLIER

exceedsMaxGrid(gridPosition) == gridPosition > MAX_COLUMNS

getMaxGrid == MAX_COLUMNS

(***************************************************************************)
(* DateUtility: grid positions                                             *)
(***************************************************************************)
\* positionWithinMonth with three even buckets
positionWithinMonth_Thirds(dayOfMonth) ==
    IF dayOfMonth <= 10 THEN 0 ELSE IF dayOfMonth <= 20 THEN 3 ELSE 6

\* the 4-position mapping inside dateToGrid
positionWithinMonth(dayOfMonth) ==
    IF dayOfMonth >= 1 /\ dayOfMonth <= 3 THEN 0
    ELSE IF dayOfMonth >= 4 /\ dayOfMonth <= 10 THEN 3
    ELSE IF dayOfMonth >= 11 /\ dayOfMonth <= 20 THEN 6
    ELSE IF dayOfMonth >= 21 /\ dayOfMonth <= 25 THEN 9
    ELSE 9

\* lines 344-373: the column of a parsed date
\* dateToGrid with one column for every day of the month
gridOfDate_DayColumns(date) ==
    IF ~date.valid THEN 1
    ELSE monthNumberToGrid(date.m) + date.d - 1

gridOfDate(date) ==
    IF ~date.valid THEN 1
    ELSE monthNumberToGrid(date.m) + positionWithinMonth(date.d)

dateToGrid(v) == gridOfDate(NewDate(v))

\* getGridPosition(value); a month number n is passed as Mon(n, "SHORT")
getGridPosition(v) ==
    IF ~Truthy(v) THEN 1
    ELSE IF IsISO(v) THEN dateToGrid(v)
    ELSE IF IsEuropean(v) THEN dateToGrid(convertEuropeanToISO(v, 0))
    ELSE getMonthGridPosition(v)

\* getGridPosition(getPreviousMonthName(..)): null gives column 1
previousMonthGrid(n) == IF n = 0 THEN 1 ELSE monthNumberToGrid(n)

(***************************************************************************)
(* RoadmapGenerator: helpers                                               *)
(***************************************************************************)
NoRange == [set |-> FALSE, startDate |-> InvalidDate, endDate |-> InvalidDate]

Range(s, e) == [set |-> TRUE, startDate |-> s, endDate |-> e]

\* (y1, m1, d1) <= (y2, m2, d2): Date <= Date, and the comparison of two
\* zero-padded "YYYY-MM-DD" strings
DateLE(a, b) ==
    \/ a.y < b.y
    \/ a.y = b.y /\ a.m < b.m
    \/ a.y = b.y /\ a.m = b.m /\ a.d <= b.d

\* isEuropean ? convertEuropeanToISO(value, this.roadmapYear) : value
toISO(v) == IF IsEuropean(v) THEN convertEuropeanToISO(v, roadmapYear) ELSE v

\* date.getFullYear() of a valid date, 0 when the date is invalid
yearOf(date) == IF date.valid THEN date.y ELSE 0

\* the year shouldDisplayStory reads from a date field, 0 when it reads none
displayYear(v) == yearOf(NewDate(toISO(v)))

\* lines 70-86 and 89-105: the year of one end of the story, 0 for null
displayYearOf(date, month) ==
    IF Truthy(date) THEN displayYear(date)
    ELSE IF Truthy(month) THEN roadmapYear
    ELSE 0

\* lines 109-123: the decision on the two years
displayedIn(startYear, endYear) ==
    IF startYear # 0 /\ endYear # 0
    THEN startYear <= roadmapYear /\ endYear >= roadmapYear
    ELSE IF startYear # 0 THEN startYear <= roadmapYear
    ELSE IF endYear # 0 THEN endYear >= roadmapYear
    ELSE TRUE

shouldDisplayStory(s) ==
    IF roadmapYear = 0 THEN TRUE
    ELSE displayedIn(displayYearOf(s.startDate, s.startMonth),
                     displayYearOf(s.endDate, s.endMonth))

\* lines 173-240: the "YYYY-MM-DD" string built in the year currentYear when
\* the value names none
storyDateToISO(v, currentYear) ==
    IF ~Truthy(v) THEN InvalidDate
    ELSE IF v.fmt = "iso" THEN MkDate(v.y, v.m, v.d)
    ELSE IF v.fmt = "eus" /\ v.d >= 1 /\ v.d <= 31 /\ v.m >= 1 /\ v.m <= 12
    THEN MkDate(IF v.yl = 0 THEN currentYear
                ELSE IF v.y < 100 THEN 2000 + v.y
                ELSE v.y, v.m, v.d)
    ELSE IF v.fmt = "mon" THEN MkDate(currentYear, v.m, 1)
    ELSE InvalidDate

\* convertStoryDateToISO(dateStr, defaultYear): the "YYYY-MM-DD" string it
\* builds, as [valid, y, m, d]; valid = FALSE stands for null.  No calendar
\* check is made on the result.
convertStoryDateToISO(v, defaultYear) ==
    storyDateToISO(v, IF defaultYear # 0 THEN defaultYear ELSE now)

\* lines 148-163: the decision on the converted end date
endsAfterView(storyEndDateStr) ==
    IF ~storyEndDateStr.valid THEN FALSE
    ELSE IF roadmapYear # 0 /\ storyEndDateStr.y > roadmapYear THEN TRUE
    ELSE IF searchRange.set /\ searchRange.endDate.valid
    THEN ~DateLE(storyEndDateStr, searchRange.endDate)
    ELSE FALSE

storyContinuesNextYear(s) ==
    IF ~Truthy(s.endDate) THEN FALSE
    ELSE endsAfterView(convertStoryDateToISO(s.endDate, roadmapYear))

\* parseMonthToDate(monthStr, year)
parseMonthToDate(v, year) ==
    IF v.fmt = "mon" THEN MkDate(year, v.m, 1) ELSE InvalidDate

\* /^\d{1,2}[\/\-]\d{1,2}[\/\-]\d{2,4}$/: a European date with its year
IsEuropeanWithYear(v) == IsEuropean(v) /\ v.yl # 0

\* lines 251-275: the start of the story as a Date
rangeStartDate(s) ==
    IF Truthy(s.startDate)
    THEN NewDate(IF IsEuropeanWithYear(s.startDate)
                 THEN convertEuropeanToISO(s.startDate, roadmapYear)
                 ELSE s.startDate)
    ELSE IF IsEuropeanWithYear(s.startMonth)
    THEN NewDate(convertEuropeanToISO(s.startMonth, roadmapYear))
    ELSE parseMonthToDate(s.startMonth,
                          IF roadmapYear # 0 THEN roadmapYear ELSE now)

\* lines 277-283: the comparison with the start of the search range
startsBefore(storyStartDate) ==
    storyStartDate.valid /\ DateLE(storyStartDate, searchRange.startDate)

storyStartsBeforeRange(s) ==
    IF ~searchRange.set \/ ~searchRange.startDate.valid THEN FALSE
    ELSE IF ~Truthy(s.startDate) /\ ~Truthy(s.startMonth) THEN FALSE
    ELSE startsBefore(rangeStartDate(s))

\* compareDates(dateB, dateA) > 0 on the parsed dates a and b
isAfter(b, a) == ~b.valid \/ (a.valid /\ ~DateLE(b, a))

\* the later of the changes at indices best and n, best on a tie
laterIndex(changes, best, n) ==
    IF isAfter(parseDateSafe(changes[n].date), parseDateSafe(changes[best].date))
    THEN n ELSE best

\* the change the sort of getEffectiveEndDate puts first: the most recent
\* one, the earlier of two with the same date (the sort is stable)
RECURSIVE mostRecentIndex(_, _)
mostRecentIndex(changes, n) ==
    IF n = 1 THEN 1
    ELSE laterIndex(changes, mostRecentIndex(changes, n - 1), n)

\* lines 541-555: the new end date of the most recent change, or the
\* fallback when it names none
effectiveEnd(newEndDate, fallback) ==
    IF Truthy(newEndDate)
    THEN (IF HasDash(newEndDate) \/ IsEuropean(newEndDate)
          THEN newEndDate ELSE ToUpper(newEndDate))
    ELSE fallback

getEffectiveEndDate(s) ==
    IF Len(s.changes) = 0 THEN Or(s.endDate, s.endMonth)
    ELSE effectiveEnd(s.changes[mostRecentIndex(s.changes, Len(s.changes))].newEndDate,
                      Or(s.endDate, s.endMonth))

\* lines 561-564: the test on the effective end value
isDateValue(effectiveEndDate) ==
    Truthy(effectiveEndDate)
    /\ (HasDash(effectiveEndDate) \/ IsEuropean(effectiveEndDate))

isEffectiveEndDateADate(s) == isDateValue(getEffectiveEndDate(s))

(***************************************************************************)
(* RoadmapGenerator.generateStory                                          *)
(***************************************************************************)
JAN == Mon(1, "SHORT")

DEC == Mon(12, "SHORT")

\* lines 586-661 on the converted start string and the Date made of it
storyStartAt(s, isoStartDate, startDate) ==
    LET startValue   == Or(s.startDate, s.startMonth)
        jan1IsoDate  == Iso(roadmapYear, 1, 1)
        dayOfMonth   == startDate.d
        nextMonth    == IF startDate.m = 12 THEN 1 ELSE startDate.m + 1
        plain(g)     == [threw |-> FALSE, previous |-> FALSE, year |-> 0, grid |-> g]
    IN  IF ~Truthy(s.startDate)
        THEN (IF startValue.fmt = "none"
              THEN [threw |-> TRUE, previous |-> FALSE, year |-> 0, grid |-> 0]
              ELSE plain(getMonthGridPosition(startValue)))
        ELSE IF ~startDate.valid THEN plain(getGridPosition(startValue))
        ELSE IF startDate.y < roadmapYear
        THEN [threw |-> FALSE, previous |-> TRUE, year |-> startDate.y,
              grid |-> IF isStartOfMonth(jan1IsoDate)
                       THEN getMonthGridPosition(JAN)
                       ELSE dateToGrid(jan1IsoDate)]
        ELSE IF isStartOfMonth(isoStartDate)
        THEN plain(monthNumberToGrid(startDate.m))
        ELSE IF isEndOfPreviousMonth(isoStartDate)
        THEN plain(previousMonthGrid(getPreviousMonthName(isoStartDate)))
        ELSE IF dayOfMonth >= 28 THEN plain(monthNumberToGrid(nextMonth))
        ELSE IF dayOfMonth >= 4 /\ dayOfMonth <= 27
        THEN plain(dateToGrid(isoStartDate) - 2)
        ELSE plain(dateToGrid(isoStartDate))

\* lines 584-661: the start column before the search-range clamp.
\*   threw     monthToGrid was handed undefined (month.toUpperCase())
\*   previous  the start lies before roadmapYear (the record is rewritten)
storyStart(s) ==
    storyStartAt(s, toISO(s.startDate), NewDate(toISO(s.startDate)))

\* storyAfterStart without the saving of the original start at 600 and 615
storyAfterStart_Forgetful(s, st) ==
    IF st.previous
    THEN [s EXCEPT !.startDate = Eu("eus", 1, 1, roadmapYear, 4),
                   !._startsInPreviousYear = TRUE]
    ELSE s

\* storyAfterStart that moves the start date into _originalStartDate
storyAfterStart_Moves(s, st) ==
    IF st.previous
    THEN [s EXCEPT !._originalStartDate = s.startDate,
                   !.startDate = None,
                   !._startsInPreviousYear = TRUE,
                   !._actualStartYear = st.year]
    ELSE s

\* lines 596-616: what generateStory writes to the story record, st being
\* the outcome of storyStart
storyAfterStart(s, st) ==
    IF st.previous
    THEN [s EXCEPT !._originalStartDate = s.startDate,
                   !.startDate = Eu("eus", 1, 1, roadmapYear, 4),
                   !._startsInPreviousYear = TRUE,
                   !._actualStartYear = st.year]
    ELSE s

\* lines 664-714 on the effective end value
\* storyEndAt with a default that counts the start column in the width
storyEndAt_Inclusive(startGrid, effectiveEndValue, effectiveEndIsDate) ==
    IF ~Truthy(effectiveEndValue) THEN startGrid + 9
    ELSE IF ~effectiveEndIsDate THEN getGridPosition(effectiveEndValue) + 10
    ELSE getGridPosition(toISO(effectiveEndValue))

storyEndAt(startGrid, effectiveEndValue, effectiveEndIsDate) ==
    IF ~Truthy(effectiveEndValue) THEN startGrid + 10
    ELSE IF ~effectiveEndIsDate THEN getGridPosition(effectiveEndValue) + 10
    ELSE IF isEndOfMonth(effectiveEndValue)
    THEN monthNumberToGrid(parseDateSafe(effectiveEndValue).m) + 10
    ELSE IF isEndOfPreviousMonth(effectiveEndValue)
    THEN previousMonthGrid(getPreviousMonthName(effectiveEndValue)) + 10
    ELSE IF NewDate(toISO(effectiveEndValue)).valid
    THEN getGridPosition(toISO(effectiveEndValue))
    ELSE getGridPosition(effectiveEndValue)

\* storyEnd without the one-month default of line 713
storyEnd_NoDefault(s, startGrid) ==
    IF ~Truthy(getEffectiveEndDate(s)) THEN startGrid
    ELSE getGridPosition(getEffectiveEndDate(s))

\* lines 663-714: the end column before the continuation clamp
storyEnd(s, startGrid) ==
    storyEndAt(startGrid, getEffectiveEndDate(s), isEffectiveEndDateADate(s))

\* the original start of a story that began in an earlier year
originalStart(s) == NewDate(toISO(s._originalStartDate))

\* getStoryTitleWithStartInfo(story): the "(month year)" note after the title
getStoryTitleWithStartInfo(s) ==
    IF s._startsInPreviousYear /\ s._actualStartYear # 0
       /\ Truthy(s._originalStartDate)
    THEN [shown |-> TRUE, month |-> originalStart(s).m, year |-> s._actualStartYear]
    ELSE [shown |-> FALSE, month |-> 0, year |-> 0]

NoBar == [status |-> "none", start |-> 0, end |-> 0,
          continuesNextYear |-> FALSE, startsBeforeRange |-> FALSE]

\* lines 716-728: the two clamps, and the bar
clampedBar(startGrid, endGrid, continuesNextYear, startsBeforeRange) ==
    [status |-> "ok",
     start  |-> IF startsBeforeRange THEN getGridPosition(JAN) ELSE startGrid,
     end    |-> IF continuesNextYear THEN getGridPosition(DEC) + 10 ELSE endGrid,
     continuesNextYear |-> continuesNextYear,
     startsBeforeRange |-> startsBeforeRange]

\* generateStory once the start is worked out
generateStoryAt(s, st) ==
    IF ~shouldDisplayStory(s) THEN [NoBar EXCEPT !.status = "hidden"]
    ELSE IF st.threw THEN [NoBar EXCEPT !.status = "threw"]
    ELSE clampedBar(st.grid, storyEnd(s, st.grid),
                    storyContinuesNextYear(storyAfterStart(s, st)),
                    storyStartsBeforeRange(storyAfterStart(s, st)))

\* generateStory(story): the emitted bar.  status is "hidden" when the story
\* is not displayed, "threw" when the call raised a TypeError.
generateStory(s) == generateStoryAt(s, storyStart(s))

\* the story record once the start is worked out
storyAfterGenerateStoryAt(s, st) ==
    IF shouldDisplayStory(s) /\ ~st.threw THEN storyAfterStart(s, st) ELSE s

\* the story record after generateStory(story)
storyAfterGenerateStory(s) == storyAfterGenerateStoryAt(s, storyStart(s))

(***************************************************************************)
(* RoadmapGenerator.generateEpic: the annotation box of one story          *)
(***************************************************************************)
\* lines 1413-1491 on the converted start string, the Date made of it and
\* the column dateToGrid gives it
epicStoryStartAt(s, isoStartDate, startDate, base) ==
    LET jan1IsoDate  == Iso(roadmapYear, 1, 1)
        dayOfMonth   == startDate.d
        nextMonth    == IF startDate.m = 12 THEN 1 ELSE startDate.m + 1
        plain(g)     == [threw |-> FALSE, previous |-> FALSE, year |-> 0, grid |-> g]
    IN  IF ~Truthy(s.startDate)
        THEN (IF s.startMonth.fmt = "none"
              THEN [threw |-> TRUE, previous |-> FALSE, year |-> 0, grid |-> 0]
              ELSE plain(getMonthGridPosition(s.startMonth)))
        ELSE IF ~startDate.valid THEN plain(getGridPosition(s.startDate))
        ELSE IF startDate.y < roadmapYear
        THEN [threw |-> FALSE, previous |-> TRUE, year |-> startDate.y,
              grid |-> IF isStartOfMonth(jan1IsoDate)
                       THEN getMonthGridPosition(JAN)
                       ELSE dateToGrid(jan1IsoDate)]
        ELSE IF isStartOfMonth(isoStartDate)
        THEN plain(monthNumberToGrid(startDate.m))
        ELSE IF isEndOfPreviousMonth(isoStartDate)
        THEN plain(previousMonthGrid(getPreviousMonthName(isoStartDate)))
        ELSE IF dayOfMonth >= 11 /\ dayOfMonth <= 21 THEN plain(base - 2)
        ELSE IF dayOfMonth >= 22 /\ dayOfMonth <= 26 THEN plain(base - 5)
        ELSE IF dayOfMonth >= 27 /\ dayOfMonth <= 31
        THEN plain(monthNumberToGrid(nextMonth))
        ELSE IF dayOfMonth >= 4 /\ dayOfMonth <= 10 THEN plain(base - 1)
        ELSE plain(base)

\* lines 1411-1491: the story start column generateEpic works out again
epicStoryStart(s) ==
    epicStoryStartAt(s, toISO(s.startDate), parseDateSafe(toISO(s.startDate)),
                     dateToGrid(toISO(s.startDate)))

\* lines 1423-1441: what generateEpic writes to the story record, st being
\* the outcome of epicStoryStart
storyAfterEpicStart(s, st) ==
    IF st.previous
    THEN [s EXCEPT !._originalStartDate = s.startDate,
                   !.startDate = Eu("eus", 1, 1, roadmapYear, 4),
                   !._startsInPreviousYear = TRUE,
                   !._actualStartYear = st.year]
    ELSE s

\* lines 1501-1533 on the effective end value
epicEndGridsAt(effectiveEndValue, effectiveEndIsDate) ==
    LET both(g) == [storyEndGrid |-> g, actualEndGrid |-> g]
    IN  IF ~effectiveEndIsDate THEN both(getGridPosition(effectiveEndValue) + 10)
        ELSE IF isEndOfMonth(effectiveEndValue)
        THEN both(monthNumberToGrid(parseDateSafe(effectiveEndValue).m) + 10)
        ELSE IF isEndOfPreviousMonth(effectiveEndValue)
        THEN both(previousMonthGrid(getPreviousMonthName(effectiveEndValue)) + 10)
        ELSE IF parseDateSafe(effectiveEndValue).valid
        THEN [storyEndGrid  |-> dateToGrid(effectiveEndValue),
              actualEndGrid |-> getGridPosition(effectiveEndValue)]
        ELSE both(getGridPosition(effectiveEndValue))

\* lines 1494-1533: storyEndGrid and actualEndGrid
epicEndGrids(s) ==
    epicEndGridsAt(getEffectiveEndDate(s), isEffectiveEndDateADate(s))

\* lines 1541-1550: the parsed end lies in roadmapYear, on or after 4 October
fromOct4(parsed) ==
    /\ parsed.valid
    /\ parsed.y = roadmapYear
    /\ (parsed.m - 1 > 9 \/ (parsed.m - 1 = 9 /\ parsed.d >= 4))

\* lines 1539-1550
endsBetweenOct4AndDec31(s) ==
    isEffectiveEndDateADate(s) /\ fromOct4(parseDateSafe(getEffectiveEndDate(s)))

\* lines 1571-1574
forceBelowGlobal == forceTextBelow \/ tempForceTextBelow \/ searchTempForceTextBelow

\* belowStart without the indent of line 1585
belowStart_Flush(storyStartGrid) == storyStartGrid

\* line 1585: where a box below the story starts, before any left shift
belowStart(storyStartGrid) ==
    IF forceBelowGlobal THEN storyStartGrid ELSE storyStartGrid + 1

\* belowBox without the left shift of lines 1589-1593
belowBox_NoShift(s, textBoxWidth) ==
    [start |-> s, end |-> s + textBoxWidth]

\* lines 1586-1593: a box of the given width below the story, from column s
belowBox(s, textBoxWidth) ==
    LET changeEndGrid == s + textBoxWidth
        overflow      == changeEndGrid - getMaxGrid
        shifted       == IF s - overflow > 1 THEN s - overflow ELSE 1
    IN  IF exceedsMaxGrid(changeEndGrid)
        THEN [start |-> shifted, end |-> shifted + textBoxWidth]
        ELSE [start |-> s, end |-> changeEndGrid]

NoBox == [status |-> "none", start |-> 0, end |-> 0, row |-> 0, below |-> FALSE,
          width |-> 0, from |-> 0, storyStartGrid |-> 0, storyEndGrid |-> 0]

\* totalItems of lines 1390-1406: the timeline changes and the status entries
totalItems(s) == Len(s.changes) + s.nStatus

\* lines 1579-1601 with generateRoadmapChanges 1070-1072: the box, placed
\* below from column `from` or on the story's row at column `from`
placedBox(below, from, shifted, textBoxWidth, storyStartGrid, visualStoryEndGrid) ==
    [status |-> "ok",
     start  |-> IF below THEN shifted.start ELSE from,
     end    |-> IF below THEN shifted.end ELSE from + textBoxWidth,
     row    |-> IF forceTextBelow \/ below THEN 2 ELSE 1,
     below  |-> below,
     width  |-> textBoxWidth,
     from   |-> from,
     storyStartGrid |-> storyStartGrid,
     storyEndGrid   |-> visualStoryEndGrid]

\* lines 1585-1598: changeStartGrid, and the left shift of a box below
boxFrom(below, from, textBoxWidth, storyStartGrid, visualStoryEndGrid) ==
    placedBox(below, from, belowBox(from, textBoxWidth), textBoxWidth,
              storyStartGrid, visualStoryEndGrid)

\* lines 1579-1598: shouldPositionBelowFinal decided, the box starts below the
\* story's start or two columns after its end
boxWhere(below, textBoxWidth, storyStartGrid, actualEndGrid, visualStoryEndGrid) ==
    boxFrom(below,
            IF below THEN belowStart(storyStartGrid) ELSE actualEndGrid + 2,
            textBoxWidth, storyStartGrid, visualStoryEndGrid)

\* boxFor without the global force of lines 1569-1577
boxFor_FitOnly(textBoxWidth, storyStartGrid, actualEndGrid, visualStoryEndGrid, continuesNextYear, lateEnd) ==
    boxWhere(\/ continuesNextYear
             \/ lateEnd
             \/ exceedsMaxGrid(visualStoryEndGrid + 2 + textBoxWidth),
             textBoxWidth, storyStartGrid, actualEndGrid, visualStoryEndGrid)

\* lines 1556-1577: combinedWidth and shouldPositionBelowFinal
boxFor(textBoxWidth, storyStartGrid, actualEndGrid, visualStoryEndGrid, continuesNextYear, lateEnd) ==
    boxWhere(\/ continuesNextYear
             \/ lateEnd
             \/ exceedsMaxGrid(visualStoryEndGrid + 2 + textBoxWidth)
             \/ forceBelowGlobal,
             textBoxWidth, storyStartGrid, actualEndGrid, visualStoryEndGrid)

\* lines 1552-1554: visualStoryEndGrid
boxAfter(textBoxWidth, storyStartGrid, ends, continuesNextYear, lateEnd) ==
    boxFor(textBoxWidth, storyStartGrid, ends.actualEndGrid,
           IF continuesNextYear THEN getGridPosition(DEC) + 10
           ELSE ends.storyEndGrid,
           continuesNextYear, lateEnd)

\* the annotation once the story start is worked out
annotationAt(s, st) ==
    IF totalItems(s) = 0 \/ ~shouldDisplayStory(s) THEN NoBox
    ELSE IF st.threw THEN [NoBox EXCEPT !.status = "threw"]
    ELSE boxAfter(calculateTextBoxWidth(totalItems(s)), st.grid,
                  epicEndGrids(storyAfterEpicStart(s, st)),
                  storyContinuesNextYear(storyAfterEpicStart(s, st)),
                  endsBetweenOct4AndDec31(storyAfterEpicStart(s, st)))

\* lines 1376-1601 with generateRoadmapChanges 1070-1072: the annotation box
\* of a story generateStory has been called on.
\*   from            changeStartGrid before the left shift
\*   storyStartGrid  the start column worked out at 1411-1491
\*   storyEndGrid    visualStoryEndGrid
annotation(s) == annotationAt(s, epicStoryStart(s))

\* the story record once the story start is worked out
storyAfterAnnotationAt(s, st) ==
    IF totalItems(s) = 0 \/ ~shouldDisplayStory(s) \/ st.threw THEN s
    ELSE storyAfterEpicStart(s, st)

\* the story record after the annotation placement
storyAfterAnnotation(s) == storyAfterAnnotationAt(s, epicStoryStart(s))

(***************************************************************************)
(* RoadmapGenerator.generateBTLDateAddedBox                                *)
(***************************************************************************)
\* lines 1102-1123 on the Date made of the start
btlStartAt(s, startDate) ==
    IF Truthy(s.startDate) /\ startDate.valid /\ startDate.y < roadmapYear
    THEN [previous |-> TRUE, year |-> startDate.y, grid |-> getGridPosition(JAN)]
    ELSE [previous |-> FALSE, year |-> 0,
          grid |-> getGridPosition(Or(s.startDate, s.startMonth))]

\* lines 1100-1123
btlStart(s) == btlStartAt(s, NewDate(toISO(s.startDate)))

\* lines 1109-1115 on the outcome of btlStart
markedPreviousYear(s, st) ==
    IF st.previous
    THEN [s EXCEPT !._startsInPreviousYear = TRUE, !._actualStartYear = st.year]
    ELSE s

\* the story record after generateBTLDateAddedBox(story)
storyAfterBTLBox(s) == markedPreviousYear(s, btlStart(s))

\* lines 1126-1148 on the effective end value
btlEndAt(startGrid, effectiveEndValue, effectiveEndIsDate) ==
    IF ~Truthy(effectiveEndValue) THEN startGrid + 10
    ELSE IF ~effectiveEndIsDate THEN getGridPosition(effectiveEndValue) + 10
    ELSE IF isEndOfMonth(effectiveEndValue)
    THEN monthNumberToGrid(parseDateSafe(effectiveEndValue).m) + 10
    ELSE IF isEndOfPreviousMonth(effectiveEndValue)
    THEN previousMonthGrid(getPreviousMonthName(effectiveEndValue)) + 10
    ELSE getGridPosition(effectiveEndValue)

\* lines 1124-1148
btlEnd(s, startGrid) ==
    btlEndAt(startGrid, getEffectiveEndDate(s), isEffectiveEndDateADate(s))

\* lines 1160-1167: the date-added box below the story, from column s
btlBelowBox(s, textBoxWidth) ==
    LET textEndGrid == s + textBoxWidth
        overflow    == textEndGrid - getMaxGrid
        shifted     == IF s - overflow > 1 THEN s - overflow ELSE 1
    IN  IF exceedsMaxGrid(textEndGrid)
        THEN [start |-> shifted, end |-> shifted + textBoxWidth]
        ELSE [start |-> s, end |-> textEndGrid]

\* lines 1152-1192: the box, placed below or on the story's row
btlPlacedBox(positionBelow, from, shifted, textBoxWidth, startGrid, endGrid) ==
    [status |-> "ok",
     start  |-> IF positionBelow THEN shifted.start ELSE from,
     end    |-> IF positionBelow THEN shifted.end ELSE from + textBoxWidth,
     row    |-> IF positionBelow THEN 2 ELSE 1,
     below  |-> positionBelow,
     width  |-> textBoxWidth,
     from   |-> from,
     storyStartGrid |-> startGrid,
     storyEndGrid   |-> endGrid]

\* lines 1157-1167: where the box starts, and the left shift of a box below
btlBoxFrom(positionBelow, from, textBoxWidth, startGrid, endGrid) ==
    btlPlacedBox(positionBelow, from, btlBelowBox(from, textBoxWidth),
                 textBoxWidth, startGrid, endGrid)

\* lines 1151-1160: the box goes below when it would run past the grid
btlBoxFor(textBoxWidth, startGrid, endGrid) ==
    btlBoxFrom(exceedsMaxGrid(endGrid + 2 + textBoxWidth),
               IF exceedsMaxGrid(endGrid + 2 + textBoxWidth)
               THEN startGrid + 1 ELSE endGrid + 2,
               textBoxWidth, startGrid, endGrid)

\* the box once the start column is worked out
btlBoxAt(s, startGrid) ==
    btlBoxFor(calculateTextBoxWidth(1), startGrid, btlEnd(s, startGrid))

\* generateBTLDateAddedBox(story): lines 1091-1188
generateBTLDateAddedBox(s) == btlBoxAt(s, btlStart(s).grid)

(***************************************************************************)
(* The inputs: story records, search ranges, flags, engine and clock       *)
(***************************************************************************)
\* most entries an annotation box holds
MaxItems == 10

\* longest distance, in days, between the start and the end of a short story
NearGap == 3

RoadmapYears == {2024, 2025}

Nows == {2024, 2025}

Months == 1..12

Days == 1..31

\* the days at which the start and end rules change
BoundaryDays == {1, 3, 4, 10, 11, 20, 21, 22, 25, 26, 27, 28, 29, 31}

FewMonths == {1, 2, 3, 10, 12}

\* a story record as it reaches the generator
Story(sd, sm, ed, em, ch, ns, da) ==
    [startDate |-> sd, startMonth |-> sm, endDate |-> ed, endMonth |-> em,
     changes |-> ch, nStatus |-> ns, dateAdded |-> da,
     _originalStartDate |-> None, _startsInPreviousYear |-> FALSE,
     _actualStartYear |-> 0]

NoStory == Story(None, None, None, None, <<>>, 0, FALSE)

Flags(c, t, s) == [config |-> c, temp |-> t, search |-> s]

NoFlags == Flags(FALSE, FALSE, FALSE)

FlagChoices == {NoFlags, Flags(TRUE, FALSE, FALSE), Flags(FALSE, TRUE, FALSE),
                Flags(FALSE, FALSE, TRUE)}

\* every YYYY-MM-DD string of a year, the days no month has included
IsoYear(y) == {Iso(y, m, d) : m \in Months, d \in Days}

\* European dates with four, two and no year digits, '/' and '-'
EuDates(y) ==
    {Eu(sep, d, m, yy[1], yy[2]) :
        sep \in {"eus", "eud"}, d \in BoundaryDays, m \in FewMonths,
        yy \in {<<y, 4>>, <<y % 100, 2>>, <<0, 0>>}}

\* month and day written the other way round, and a date no reading saves
SwapDates(y) ==
    {Eu(sep, d, m, y, 4) : sep \in {"eus", "eud"}, d \in {5, 12, 13}, m \in {13, 15}}

\* dates of the year before and the year after
OtherYearDates(y) ==
    {Iso(yy, m, d) : yy \in {y - 1, y + 1}, m \in {1, 2, 12}, d \in {1, 15, 29, 31}}
    \cup {Eu(sep, 15, 3, yy[1], yy[2]) :
             sep \in {"eus", "eud"},
             yy \in {<<y + 1, 4>>, <<(y + 1) % 100, 2>>, <<y - 1, 4>>,
                     <<(y - 1) % 100, 2>>}}

DateStrings(y) == IsoYear(y) \cup EuDates(y) \cup SwapDates(y) \cup OtherYearDates(y)

MonthTokens == {Mon(m, nm) : m \in Months, nm \in {"SHORT", "full", "Full"}}

\* stories whose start runs over every date string
StartSweep(y) ==
    {<<Story(sd, None, e[1], e[2], <<>>, 0, FALSE), NoRange, NoFlags>> :
        sd \in DateStrings(y),
        e \in {<<None, None>>, <<None, Mon(6, "SHORT")>>,
               <<Iso(y, 12, 31), None>>, <<Iso(y + 1, 2, 1), None>>}}

\* stories whose end runs over every date string
EndSweep(y) ==
    {<<Story(s[1], s[2], ed, None, <<>>, 1, TRUE), NoRange, NoFlags>> :
        ed \in DateStrings(y),
        s \in {<<Iso(y, 1, 1), None>>, <<None, Mon(3, "SHORT")>>,
               <<Iso(y - 1, 11, 5), None>>}}

\* stories given by month names, and by nothing usable
MonthSweep(y) ==
    {<<Story(sd, sm, ed, em, <<>>, 0, TRUE), NoRange, NoFlags>> :
        sd \in {None, Empty, Junk},
        sm \in MonthTokens \cup {None, Empty, Junk},
        ed \in {None, Junk},
        em \in {Mon(1, "SHORT"), Mon(2, "Short"), Mon(3, "SHORT"), Mon(6, "FULL"),
                Mon(6, "short"), Mon(9, "full"), Mon(11, "Full"), Mon(12, "SHORT"),
                None, Empty, Junk}}

\* short stories: the end is 0..NearGap days after the start
NearSweep(y) ==
    {<<Story(Iso(y, x[1], x[2]), None,
             Iso(RollOver(y, x[1], x[2] + x[3]).y, RollOver(y, x[1], x[2] + x[3]).m,
                 RollOver(y, x[1], x[2] + x[3]).d),
             None, <<>>, 0, FALSE), NoRange, NoFlags>> :
        x \in {w \in Months \X Days \X (0..NearGap) : w[2] <= DaysInMonth(y, w[1])}}

\* stories with an annotation of 1..MaxItems status entries
AnnotationSweep(y) ==
    {<<Story(s[1], s[2], e[1], e[2], <<>>, n, FALSE), NoRange, fl>> :
        s \in {<<Iso(y, 1, 15), None>>, <<Iso(y, 6, 4), None>>,
               <<Iso(y, 8, 24), None>>, <<Iso(y, 11, 28), None>>,
               <<None, Mon(9, "SHORT")>>, <<Iso(y - 1, 5, 5), None>>,
               <<Eu("eus", 22, 8, y, 4), None>>},
        e \in {<<None, None>>, <<None, Mon(3, "SHORT")>>, <<Iso(y, 3, 15), None>>,
               <<Iso(y, 7, 2), None>>, <<Iso(y, 9, 20), None>>,
               <<Eu("eus", 20, 9, y, 4), None>>, <<Eu("eud", 5, 9, y, 4), None>>,
               <<Iso(y, 10, 3), None>>, <<Iso(y, 10, 4), None>>,
               <<Iso(y, 12, 31), None>>, <<Iso(y + 1, 2, 1), None>>,
               <<Eu("eud", 15, 3, y + 1, 4), None>>},
        n \in 1..MaxItems,
        fl \in FlagChoices}

Change(date, newEndDate) == [date |-> date, newEndDate |-> newEndDate]

\* one timeline change, or two in either order
ChangeLists(y) ==
    LET one == {Change(dt, ne) :
                   dt \in {Iso(y, 2, 1), Iso(y, 5, 1)},
                   ne \in {None, Mon(9, "short"), Iso(y, 11, 15),
                           Eu("eus", 20, 4, y, 4), Iso(y + 1, 3, 1)}}
    IN  {<<c>> : c \in one} \cup {<<c1, c2>> : c1 \in one, c2 \in one}

\* stories whose end was moved by timeline changes
ChangeSweep(y) ==
    {<<Story(s[1], s[2], e, None, ch, 0, TRUE), NoRange, NoFlags>> :
        s \in {<<Iso(y, 1, 15), None>>, <<None, Mon(2, "SHORT")>>},
        e \in {None, Iso(y, 6, 30), Iso(y + 1, 2, 1)},
        ch \in ChangeLists(y)}

\* the search ranges of a date-range search: both ends, or one of them
SearchRanges(y) ==
    {Range(MkDate(y, 4, 1), MkDate(y, 9, 30)),
     Range(MkDate(y, 1, 1), MkDate(y, 12, 31)),
     Range(MkDate(y, 4, 1), InvalidDate),
     Range(InvalidDate, MkDate(y, 9, 30))}

\* stories rendered for a date-range search
RangeSweep(y) ==
    {<<Story(s[1], s[2], e[1], e[2], <<>>, n, FALSE), rg, NoFlags>> :
        s \in {<<Iso(y, m, d), None>> : m \in {3, 4, 5}, d \in {1, 15, 28}}
              \cup {<<None, Mon(4, "SHORT")>>, <<None, Mon(5, "full")>>,
                    <<Eu("eus", 1, 4, y, 4), None>>, <<Eu("eus", 15, 3, 0, 0), None>>,
                    <<Iso(y - 1, 12, 1), None>>},
        e \in {<<Iso(y, m, d), None>> : m \in {9, 10}, d \in {15, 30}}
              \cup {<<None, None>>, <<None, Mon(10, "SHORT")>>,
                    <<None, Mon(4, "Full")>>,
                    <<Eu("eus", 1, 10, y, 4), None>>, <<Eu("eud", 1, 10, y, 4), None>>,
                    <<Iso(y + 1, 1, 15), None>>},
        n \in {0, 1},
        rg \in SearchRanges(y)}

Cases(y) ==
    StartSweep(y) \cup EndSweep(y) \cup MonthSweep(y) \cup NearSweep(y)
    \cup AnnotationSweep(y) \cup ChangeSweep(y) \cup RangeSweep(y)

\* the strings of a story record
Strings(s) ==
    {s.startDate, s.startMonth, s.endDate, s.endMonth}
    \cup {s.changes[i].newEndDate : i \in 1..Len(s.changes)}

\* the wall-clock year is read only for a European date without a year
NowsFor(s, y) ==
    IF \E v \in Strings(s) : IsEuropean(v) /\ v.yl = 0 THEN Nows ELSE {y}

\* the engine's leniency shows only on a day 29..31
LenientFor(s) ==
    IF \E v \in Strings(s) : v.fmt \in {"iso", "eus", "eud"} /\ (v.d >= 29 \/ v.m >= 29)
    THEN BOOLEAN ELSE {FALSE}

\* the legacy parser is handed a dash date only by the annotation placement
DashFor(s) ==
    IF totalItems(s) > 0 /\ \E v \in Strings(s) : v.fmt = "eud"
    THEN BOOLEAN ELSE {FALSE}

\* the roadmapYear a date picker call is given: none, the year of the
\* roadmap, and a century year that is no leap year
CenturyYear == 2100

TextYears(y) == {0, y, CenturyYear}

\* month names, 3-letter and full, in upper, lower and mixed case
MonthNameTexts ==
    {Mon(m, nm) : m \in Months, nm \in {"SHORT", "short", "FULL", "Full"}}

\* a month name with a day: no day 0, real days, days the month may not
\* have, and a number that is no day
MonthDayTexts ==
    {MonDay(m, d, nm) : m \in {1, 2, 4, 12}, d \in {0, 1, 8, 29, 30, 31, 45},
                        nm \in {"SHORT", "full"}}

\* the year digits typed: none, two (either side of 30 and of 50), four
YearDigits(y) ==
    {<<0, 0>>, <<0, 2>>, <<y % 100, 2>>, <<30, 2>>, <<31, 2>>, <<99, 2>>,
     <<y, 4>>, <<CenturyYear, 4>>}

\* D/M, D/M/YY and D/M/YYYY with '/' and '-', days and months in and out of
\* range
NumericTexts(y) ==
    {Eu(sep, d, m, yy[1], yy[2]) :
        sep \in {"eus", "eud"}, d \in {0, 1, 12, 13, 29, 30, 31, 32},
        m \in {0, 2, 4, 12, 13, 15}, yy \in YearDigits(y)}

\* YYYY-MM-DD, the days February does not have included
IsoTexts(y) ==
    {Iso(yy, m, d) : yy \in {y, y - 1, CenturyYear}, m \in {1, 2, 12},
                     d \in {1, 15, 28, 29, 30, 31}}

Texts(y) ==
    MonthNameTexts \cup MonthDayTexts \cup NumericTexts(y) \cup IsoTexts(y)
    \cup {None, Empty, Junk}

(***************************************************************************)
(* The state machine                                                       *)
(***************************************************************************)
\* new RoadmapGenerator(roadmapYear): nothing has been rendered yet
(***************************************************************************)
(* The AI agent panel: values                                              *)
(***************************************************************************)
\* null
Null == "null"

\* the values of the aiProvider radio buttons
Providers == {"openai", "anthropic", "glean"}

\* API keys typed into aiApiKeyInput, trimmed and not empty
Keys == {"k1", "k2"}

\* the stories the panel is opened for
Contexts == {"s1", "s2"}

\* no saveConfiguration since the stored keys were last empty
NoConfiguration == [provider |-> Null, apiKey |-> Null]

\* how many messages the user sends
MaxMessages == 3

\* how many requests are in flight at once
MaxPending == 2

Init ==
    /\ roadmapYear \in RoadmapYears
    /\ now = roadmapYear
    /\ lenientDates = FALSE
    /\ dashUS = FALSE
    /\ searchRange = NoRange
    /\ forceTextBelow = FALSE
    /\ tempForceTextBelow = FALSE
    /\ searchTempForceTextBelow = FALSE
    /\ input = NoStory
    /\ story = NoStory
    /\ bar = NoBar
    /\ box = NoBox
    /\ btlBox = NoBox
    /\ previous = NoBar
    /\ previousBox = NoBox
    /\ text = None
    /\ isEndDateField = FALSE
    /\ textYear = 0
    /\ parsedText = Empty
    /\ converted = None
    /\ monthEnd = None
    /\ pc = "idle"
    /\ apiProvider = "openai"
    /\ apiKey = Null
    /\ conversationHistory = <<>>
    /\ currentStoryContext = Null
    /\ localStorage = [p \in Providers |-> Null]
    /\ pending = {}
    /\ sent = 0
    /\ lastSaved = NoConfiguration
    /\ agentPc = "loaded"

\* A story record arrives: generateRoadmap stores the search range of the
\* team data; the flags, the engine and the clock are what they are.
LoadStory ==
    /\ UNCHANGED agentVars
    /\ pc = "idle"
    /\ \E c \in Cases(roadmapYear) :
          /\ now' \in NowsFor(c[1], roadmapYear)
          /\ lenientDates' \in LenientFor(c[1])
          /\ dashUS' \in DashFor(c[1])
          /\ searchRange' = c[2]
          /\ forceTextBelow' = c[3].config
          /\ tempForceTextBelow' = c[3].temp
          /\ searchTempForceTextBelow' = c[3].search
          /\ input' = c[1]
          /\ story' = c[1]
    /\ pc' = "loaded"
    /\ UNCHANGED <<roadmapYear, bar, box, btlBox, previous, previousBox>>
    /\ UNCHANGED pickerVars

\* generateStory(story) on its own, the first time and after the new year
GenerateStory ==
    /\ UNCHANGED agentVars
    /\ pc \in {"loaded", "newyear"}
    /\ bar' = generateStory(story)
    /\ story' = storyAfterGenerateStory(story)
    /\ pc' = IF pc = "loaded" THEN "story" ELSE "again"
    /\ UNCHANGED <<roadmapYear, now, lenientDates, dashUS, searchRange,
                   forceTextBelow, tempForceTextBelow, searchTempForceTextBelow,
                   input, box, btlBox, previous, previousBox>>
    /\ UNCHANGED pickerVars

\* The year ends while the roadmap is open; the same record is rendered
\* again by the same generator.
NewYear ==
    /\ UNCHANGED agentVars
    /\ pc = "story"
    /\ now + 1 \in Nows
    /\ now' = now + 1
    /\ previous' = bar
    /\ story' = input
    /\ bar' = NoBar
    /\ pc' = "newyear"
    /\ UNCHANGED <<roadmapYear, lenientDates, dashUS, searchRange,
                   forceTextBelow, tempForceTextBelow, searchTempForceTextBelow,
                   input, box, btlBox, previousBox>>
    /\ UNCHANGED pickerVars

\* lines 1361-1601 once generateStory(story) has given the bar b and left
\* the record as `after`
epicAfterStory(b, after) ==
    /\ bar' = b
    /\ IF b.status = "threw"
       THEN box' = NoBox /\ story' = after
       ELSE box' = annotation(after) /\ story' = storyAfterAnnotation(after)

\* generateEpic for the story: generateStory, then the annotation box.  An
\* exception in generateStory ends the call.
GenerateEpic ==
    /\ UNCHANGED agentVars
    /\ pc \in {"loaded", "reloaded"}
    /\ epicAfterStory(generateStory(story), storyAfterGenerateStory(story))
    /\ pc' = IF pc = "loaded" THEN "epic" ELSE "epicAgain"
    /\ UNCHANGED <<roadmapYear, now, lenientDates, dashUS, searchRange,
                   forceTextBelow, tempForceTextBelow, searchTempForceTextBelow,
                   input, btlBox, previous, previousBox>>
    /\ UNCHANGED pickerVars

\* The roadmap is drawn again from the same team data: the record object,
\* as the first render left it, goes through generateEpic once more.
RenderAgain ==
    /\ UNCHANGED agentVars
    /\ pc = "epic"
    /\ previous' = bar
    /\ previousBox' = box
    /\ bar' = NoBar
    /\ box' = NoBox
    /\ pc' = "reloaded"
    /\ UNCHANGED <<roadmapYear, now, lenientDates, dashUS, searchRange,
                   forceTextBelow, tempForceTextBelow, searchTempForceTextBelow,
                   input, story, btlBox>>
    /\ UNCHANGED pickerVars

\* lines 1218-1226 once generateStory(story) has given the bar b and left
\* the record as `after`
btlAfterStory(b, after) ==
    /\ bar' = b
    /\ IF b.status = "threw" \/ ~after.dateAdded
       THEN btlBox' = NoBox /\ story' = after
       ELSE btlBox' = generateBTLDateAddedBox(after)
            /\ story' = storyAfterBTLBox(after)

\* generateBTLSwimlane for the story: generateStory, then the date-added box
\* when the record has a dateAdded.
GenerateBTLSwimlane ==
    /\ UNCHANGED agentVars
    /\ pc = "loaded"
    /\ btlAfterStory(generateStory(story), storyAfterGenerateStory(story))
    /\ pc' = "btl"
    /\ UNCHANGED <<roadmapYear, now, lenientDates, dashUS, searchRange,
                   forceTextBelow, tempForceTextBelow, searchTempForceTextBelow,
                   input, box, previous, previousBox>>
    /\ UNCHANGED pickerVars

\* the state of the generator, which the date picker does not touch
generatorVars ==
    <<roadmapYear, dashUS, searchRange, forceTextBelow, tempForceTextBelow,
      searchTempForceTextBelow, input, story, bar, box, btlBox, previous, previousBox>>

\* A text is typed into the start or the end field of a date picker; the
\* engine and the clock are what they are.
TypeText ==
    /\ UNCHANGED agentVars
    /\ pc = "idle"
    /\ \E v \in Texts(roadmapYear) :
          /\ text' = v
          /\ lenientDates' \in (IF IsEuropean(v) /\ v.d >= 29 THEN BOOLEAN
                                ELSE {FALSE})
    /\ isEndDateField' \in BOOLEAN
    /\ \E y \in TextYears(roadmapYear) :
          /\ textYear' = y
          /\ now' \in (IF y = 0 THEN Nows ELSE {roadmapYear})
    /\ pc' = "typed"
    /\ UNCHANGED <<parsedText, converted, monthEnd>>
    /\ UNCHANGED generatorVars

\* DateUtility.parseTextValue(text, isEndDateField, textYear)
ParseTextValue ==
    /\ UNCHANGED agentVars
    /\ pc = "typed"
    /\ parsedText' = parseTextValue(text, isEndDateField, textYear)
    /\ pc' = "parsed"
    /\ UNCHANGED <<now, lenientDates, text, isEndDateField, textYear, converted,
                   monthEnd>>
    /\ UNCHANGED generatorVars

\* DateUtility.convertEuropeanToISO(text, textYear)
ConvertEuropeanToISO ==
    /\ UNCHANGED agentVars
    /\ pc = "parsed"
    /\ converted' = convertEuropeanToISO(text, textYear)
    /\ pc' = "converted"
    /\ UNCHANGED <<now, lenientDates, text, isEndDateField, textYear, parsedText,
                   monthEnd>>
    /\ UNCHANGED generatorVars

\* DateUtility.convertMonthToEndDate(text, textYear)
ConvertMonthToEndDate ==
    /\ UNCHANGED agentVars
    /\ pc = "converted"
    /\ monthEnd' = convertMonthToEndDate(text, textYear)
    /\ pc' = "monthEnd"
    /\ UNCHANGED <<now, lenientDates, text, isEndDateField, textYear, parsedText,
                   converted>>
    /\ UNCHANGED generatorVars

\* the page is left; the next roadmap starts from a new generator
Reset ==
    /\ UNCHANGED agentVars
    /\ pc \in {"story", "epic", "btl", "again", "epicAgain", "monthEnd"}
    /\ now' = roadmapYear
    /\ lenientDates' = FALSE
    /\ dashUS' = FALSE
    /\ searchRange' = NoRange
    /\ forceTextBelow' = FALSE
    /\ tempForceTextBelow' = FALSE
    /\ searchTempForceTextBelow' = FALSE
    /\ input' = NoStory
    /\ story' = NoStory
    /\ bar' = NoBar
    /\ box' = NoBox
    /\ btlBox' = NoBox
    /\ previous' = NoBar
    /\ previousBox' = NoBox
    /\ text' = None
    /\ isEndDateField' = FALSE
    /\ textYear' = 0
    /\ parsedText' = Empty
    /\ converted' = None
    /\ monthEnd' = None
    /\ pc' = "idle"
    /\ UNCHANGED roadmapYear

Next ==
    \/ LoadStory
    \/ GenerateStory
    \/ GenerateEpic
    \/ GenerateBTLSwimlane
    \/ NewYear
    \/ RenderAgain
    \/ TypeText
    \/ ParseTextValue
    \/ ConvertEuropeanToISO
    \/ ConvertMonthToEndDate
    \/ Reset

Spec == Init /\ [][Next]_vars

(***************************************************************************)
(* The AI agent panel                                                      *)
(***************************************************************************)
\* the roadmap and the date picker are left alone
renderVars ==
    <<roadmapYear, now, lenientDates, dashUS, searchRange, forceTextBelow,
      tempForceTextBelow, searchTempForceTextBelow, input, story, bar, box,
      btlBox, previous, previousBox, text, isEndDateField, textYear,
      parsedText, converted, monthEnd, pc>>

\* AIAgentUtility.isConfigured
isConfigured == apiKey # Null /\ apiKey # ""

\* a message of the conversation: content n is the user's n-th message or
\* the reply to it; beforeReset says the reply belongs to a request issued
\* before the history array was last replaced
Message(role, n, beforeReset) ==
    [role |-> role, content |-> n, beforeReset |-> beforeReset]

\* AIAgentUI.saveConfiguration with provider p checked and key k typed
SaveConfiguration ==
    /\ \E p \in Providers, k \in Keys :
          /\ apiProvider' = p
          /\ apiKey' = k
          /\ localStorage' = [localStorage EXCEPT ![p] = k]
          /\ lastSaved' = [provider |-> p, apiKey |-> k]
    /\ agentPc' = "used"
    /\ UNCHANGED <<conversationHistory, currentStoryContext, pending, sent>>
    /\ UNCHANGED renderVars

\* AIAgentUI.clearConfiguration, confirmed
ClearConfiguration ==
    /\ localStorage' = [p \in Providers |-> Null]
    /\ apiProvider' = Null
    /\ apiKey' = Null
    /\ lastSaved' = NoConfiguration
    /\ agentPc' = "used"
    /\ UNCHANGED <<conversationHistory, currentStoryContext, pending, sent>>
    /\ UNCHANGED renderVars

\* the provider and key loadSavedConfiguration finds: OpenAI's first, then
\* Anthropic's
savedCredentials ==
    IF localStorage["openai"] # Null /\ localStorage["openai"] # ""
    THEN [provider |-> "openai", apiKey |-> localStorage["openai"]]
    ELSE [provider |-> "anthropic", apiKey |-> localStorage["anthropic"]]

\* The page is loaded again: a new AIAgentUtility, then
\* AIAgentUI.loadSavedConfiguration.  The requests of the page before are
\* gone with it.
LoadSavedConfiguration ==
    /\ IF savedCredentials.apiKey # Null /\ savedCredentials.apiKey # ""
       THEN /\ apiProvider' = savedCredentials.provider
            /\ apiKey' = savedCredentials.apiKey
       ELSE /\ apiProvider' = "openai"
            /\ apiKey' = Null
    /\ conversationHistory' = <<>>
    /\ currentStoryContext' = Null
    /\ pending' = {}
    /\ agentPc' = "loaded"
    /\ UNCHANGED <<localStorage, sent, lastSaved>>
    /\ UNCHANGED renderVars

\* AIAgentUI.sendUserMessage with a message typed, up to the await of the
\* API call in AIAgentUtility.sendMessage
SendMessage ==
    /\ isConfigured
    /\ apiProvider \in Providers
    /\ sent < MaxMessages
    /\ Cardinality(pending) < MaxPending
    /\ sent' = sent + 1
    /\ conversationHistory' =
          Append(conversationHistory, Message("user", sent + 1, FALSE))
    /\ pending' = pending \cup {[content |-> sent + 1, beforeReset |-> FALSE]}
    /\ agentPc' = "used"
    /\ UNCHANGED <<apiProvider, apiKey, currentStoryContext, localStorage,
                   lastSaved>>
    /\ UNCHANGED renderVars

\* the API call of a pending sendMessage answers: the reply is pushed to
\* this.conversationHistory, the array the agent holds at that time
ReplyArrives ==
    /\ \E r \in pending :
          /\ conversationHistory' =
                Append(conversationHistory,
                       Message("assistant", r.content, r.beforeReset))
          /\ pending' = pending \ {r}
    /\ agentPc' = "used"
    /\ UNCHANGED <<apiProvider, apiKey, currentStoryContext, localStorage,
                   sent, lastSaved>>
    /\ UNCHANGED renderVars

\* the API call of a pending sendMessage fails: the error is logged and
\* thrown again, sendUserMessage shows it
RequestFails ==
    /\ \E r \in pending : pending' = pending \ {r}
    /\ agentPc' = "used"
    /\ UNCHANGED <<apiProvider, apiKey, conversationHistory,
                   currentStoryContext, localStorage, sent, lastSaved>>
    /\ UNCHANGED renderVars

\* the requests in flight once the history array has been replaced
afterReset(requests) ==
    {[r EXCEPT !.beforeReset = TRUE] : r \in requests}

\* AIAgentUtility.setStoryContext(story)
SetStoryContext ==
    /\ currentStoryContext' \in Contexts
    /\ conversationHistory' = <<>>
    /\ pending' = afterReset(pending)
    /\ agentPc' = "used"
    /\ UNCHANGED <<apiProvider, apiKey, localStorage, sent, lastSaved>>
    /\ UNCHANGED renderVars

\* AIAgentUI.resetConversation
ResetConversation ==
    /\ conversationHistory' = <<>>
    /\ pending' = afterReset(pending)
    /\ agentPc' = "used"
    /\ UNCHANGED <<apiProvider, apiKey, currentStoryContext, localStorage,
                   sent, lastSaved>>
    /\ UNCHANGED renderVars

AgentNext ==
    \/ SaveConfiguration
    \/ ClearConfiguration
    \/ LoadSavedConfiguration
    \/ SendMessage
    \/ ReplyArrives
    \/ RequestFails
    \/ SetStoryContext
    \/ ResetConversation

\* the AI agent panel in use, the roadmap left as it is
AgentSpec == Init /\ [][AgentNext]_vars

(***************************************************************************)
(* Properties                                                              *)
(***************************************************************************)
Rendered == pc \in {"story", "epic", "btl"} /\ bar.status = "ok"

\* what a date field of the record resolves to: the date new Date() makes of
\* the field after convertEuropeanToISO(field, roadmapYear)
Resolved(v) ==
    NewDate(IF IsEuropean(v) THEN convertEuropeanToISO(v, roadmapYear) ELSE v)

\* the field names a day the calendar has, and resolves to it
RealDate(v) ==
    LET iso == IF IsEuropean(v) THEN convertEuropeanToISO(v, roadmapYear) ELSE v
    IN  /\ Truthy(v)
        /\ iso.fmt = "iso"
        /\ iso.m \in 1..12
        /\ iso.d \in 1..DaysInMonth(iso.y, iso.m)

base(m) == GRID_POSITIONS[m]

\* C1 as stated: every rendered bar ends strictly after the column it starts
\* in; no zero-width and no inverted bar.
C1_EndAfterStartAlways == Rendered => bar.end > bar.start

\* C1, amended: a rendered bar ends strictly after its start column whenever
\* the record supplies no end (the end defaults to ten columns after the
\* start) and whenever the story is marked as continuing into a later year
\* (the end is column 121).
C1_EndAfterStartByDefault ==
    Rendered =>
        /\ ~Truthy(getEffectiveEndDate(input)) => bar.end >= bar.start + 10
        /\ bar.continuesNextYear => bar.end > bar.start

C1_Witness ==
    /\ Rendered
    /\ ~Truthy(getEffectiveEndDate(input))
    /\ Truthy(input.startDate)
    /\ bar.start > 1
    /\ bar.end = bar.start + 10

\* C2 as stated: neither generateStory nor the annotation placement of
\* generateEpic raises an exception, whatever the story record.
C2_NeverThrows == bar.status # "threw" /\ box.status # "threw"

\* C3 as stated: a displayed story whose end date resolves to a year after
\* roadmapYear, in any date grammar, ends at column 121 and is marked as
\* continuing.
C3_LaterYearEndIsClamped ==
    (/\ Rendered
     /\ Len(input.changes) = 0
     /\ Truthy(input.endDate)
     /\ Resolved(input.endDate).valid
     /\ Resolved(input.endDate).y > roadmapYear)
    => (bar.end = base(12) + 10 /\ bar.continuesNextYear)

\* C4: a rendered story whose start date resolves to a year before
\* roadmapYear starts at column 1, carries the starts-in-previous-year flag,
\* and keeps its real start date and year, which the title shows.
C4_PreviousYearStart ==
    (/\ Rendered
     /\ Truthy(input.startDate)
     /\ Resolved(input.startDate).valid
     /\ Resolved(input.startDate).y < roadmapYear)
    => /\ bar.start = base(1)
       /\ story._startsInPreviousYear
       /\ story._originalStartDate = input.startDate
       /\ story._actualStartYear = Resolved(input.startDate).y
       /\ getStoryTitleWithStartInfo(story) =
              [shown |-> TRUE, month |-> Resolved(input.startDate).m,
               year |-> Resolved(input.startDate).y]

C4_Witness ==
    /\ Rendered
    /\ IsEuropean(input.startDate)
    /\ Resolved(input.startDate).valid
    /\ Resolved(input.startDate).y = roadmapYear - 1
    /\ Resolved(input.startDate).m = 3
    /\ bar.start = 1
    /\ story._startsInPreviousYear
    /\ story._originalStartDate = input.startDate

\* C5 as stated: every annotation box that is emitted, in an epic or below
\* the line, starts at column 1 or later and ends at column 120 or earlier.
C5_BoxesInsideGrid ==
    /\ box.status = "ok" => (box.start >= 1 /\ box.end <= MAX_COLUMNS)
    /\ btlBox.status = "ok" => (btlBox.start >= 1 /\ btlBox.end <= MAX_COLUMNS)

\* the same-row placement of the box would run past column 120
BoxWouldOverflow ==
    /\ pc = "epic"
    /\ box.status = "ok"
    /\ box.storyEndGrid + 2 + box.width > MAX_COLUMNS

Max(a, b) == IF a > b THEN a ELSE b

\* the rule of C7 for a box placed below the story
ShiftedLeft(b) ==
    LET s == b.from
        w == b.width
    IN  IF s + w > 120
        THEN b.start = Max(1, s - (s + w - 120)) /\ b.end = b.start + w
        ELSE b.start = s /\ b.end = s + w

\* C7: a box below the story that would end past column 120 from column s
\* with width w starts at max(1, s - (s + w - 120)) and ends w columns later;
\* one that would not keeps s.  Epic annotation boxes and date-added boxes
\* alike.
C7_LeftShift ==
    /\ (pc = "epic" /\ box.status = "ok" /\ box.below) => ShiftedLeft(box)
    /\ (pc = "btl" /\ btlBox.status = "ok" /\ btlBox.below) => ShiftedLeft(btlBox)

C7_Witness ==
    /\ pc = "epic"
    /\ box.status = "ok"
    /\ box.below
    /\ box.from + box.width > 120
    /\ box.start > 1
    /\ box.start < box.from
    /\ box.end = 120

\* the start date of the record is a day of roadmapYear
StartInYear ==
    /\ Rendered
    /\ RealDate(input.startDate)
    /\ Resolved(input.startDate).y = roadmapYear

\* the start column of C8 for day d of month m
StartColumn(m, d) ==
    IF d \in 1..3 THEN base(m)
    ELSE IF d \in 4..10 THEN base(m) + 3 - 2
    ELSE IF d \in 11..20 THEN base(m) + 6 - 2
    ELSE base(m) + 9 - 2

C9_LateStartNextMonth ==
    (StartInYear /\ Resolved(input.startDate).d \in 28..31 /\ ~bar.startsBeforeRange)
    => IF Resolved(input.startDate).m < 12
       THEN bar.start = base(Resolved(input.startDate).m + 1)
       ELSE bar.start >= base(12)

\* the end column of C10 for day d of month m
EndColumn(m, d) ==
    IF d \in 1..3 THEN base(IF m = 1 THEN 12 ELSE m - 1) + 10
    ELSE IF d \in 4..10 THEN base(m) + 3
    ELSE IF d \in 11..20 THEN base(m) + 6
    ELSE IF d \in 21..25 THEN base(m) + 9
    ELSE base(m) + 10

\* C10 as stated: a story that ends on day d of month m of roadmapYear has
\* its bar end at base(previous month)+10, base(m)+3, base(m)+6, base(m)+9 or
\* base(m)+10, by the bucket of d.
C10_EndBuckets ==
    (/\ Rendered
     /\ ~searchRange.set
     /\ Len(input.changes) = 0
     /\ RealDate(input.endDate)
     /\ Resolved(input.endDate).y = roadmapYear)
    => bar.end = EndColumn(Resolved(input.endDate).m, Resolved(input.endDate).d)

\* the story is given a bare month name as its start and nothing else
StartIsMonth == ~Truthy(input.startDate) /\ input.startMonth.fmt = "mon"

\* the story is given a bare month name as its end and nothing else
EndIsMonth ==
    /\ ~Truthy(input.endDate)
    /\ input.endMonth.fmt = "mon"
    /\ Len(input.changes) = 0

C12_ColumnsInRange ==
    Rendered => (bar.start \in 1..120 /\ bar.end <= 130)

\* a bar that starts in the last columns of December and runs past 120
C12_Witness ==
    /\ Rendered
    /\ bar.start > 111
    /\ bar.end > 120
    /\ ~bar.continuesNextYear

\* the story gives no end date, no end month and no change with a new end
NoEndGiven == ~Truthy(getEffectiveEndDate(input))

\* C13 as stated: with no end given, the rendered end is the rendered start
\* plus 10, also when the start was clamped to the first column.
C13_DefaultWidth ==
    (Rendered /\ NoEndGiven) => bar.end = bar.start + 10

\* C13, amended: with no end given the rendered end is the rendered start
\* plus 10, also for a start clamped by the year boundary; under the
\* search-range clamp the start is column 1 and the end stays 10 columns
\* after the column the start had before the clamp.
C13_DefaultWidthOutsideSearch ==
    (Rendered /\ NoEndGiven) =>
        /\ ~bar.startsBeforeRange => bar.end = bar.start + 10
        /\ bar.startsBeforeRange =>
              (bar.start = 1 /\ bar.end = storyStart(input).grid + 10)

\* a start of the year before, clamped to column 1, with the default width
C13_Witness ==
    /\ Rendered
    /\ NoEndGiven
    /\ story._startsInPreviousYear
    /\ ~bar.startsBeforeRange
    /\ bar.start = 1
    /\ bar.end = 11

\* the value a story gives for its start, and for its end
startValueOf(s) == Or(s.startDate, s.startMonth)

\* the value normalizes: a month name, or a date the calendar has
Normalizes(v) == v.fmt = "mon" \/ RealDate(v)

\* the value is there and does not normalize
FailsToNormalize(v) == Truthy(v) /\ ~Normalizes(v)

\* C14 as stated: an end that fails to normalize is rendered 10 columns after
\* the start, a start that fails to normalize 10 columns before the end, and
\* with both failing the bar starts at column 1.
C14_FallBackOnOtherEndpoint ==
    /\ (Rendered /\ Normalizes(startValueOf(input))
           /\ FailsToNormalize(getEffectiveEndDate(input)))
       => bar.end = bar.start + 10
    /\ (Rendered /\ FailsToNormalize(startValueOf(input))
           /\ Normalizes(getEffectiveEndDate(input)))
       => bar.start = bar.end - 10
    /\ (Rendered /\ FailsToNormalize(startValueOf(input))
           /\ FailsToNormalize(getEffectiveEndDate(input)))
       => bar.start = 1

\* parseTextValue has answered for the text in the date field
Parsed == pc \in {"parsed", "converted", "monthEnd"}

\* the year parseTextValue works with
textCurrentYear == IF textYear # 0 THEN textYear ELSE now

\* an ISO string names a day the calendar has
CalendarDate(v) ==
    /\ v.fmt = "iso"
    /\ v.m \in 1..12
    /\ v.d \in 1..DaysInMonth(v.y, v.m)

\* C15 as stated: whatever parseTextValue returns for a European numeric
\* text, a month name or a month name with a day is empty or a date the
\* calendar has; a month name with a day the month does not have gives the
\* empty result.
C15_ParsedIsCalendarDate ==
    /\ (Parsed /\ text.fmt \in {"eus", "eud", "mon", "mond"} /\ Truthy(parsedText))
       => CalendarDate(parsedText)
    /\ (Parsed /\ text.fmt = "mond" /\ text.d > DaysInMonth(textCurrentYear, text.m))
       => parsedText = Empty

\* the text is a European numeric date D/M[/Y]
NumericText == text.fmt \in {"eus", "eud"}

\* the year a European numeric text stands for
numericYearOf(v) ==
    IF v.yl = 0 THEN textCurrentYear
    ELSE IF v.yl = 2 THEN 2000 + v.y
    ELSE v.y

\* the one reading the rule allows: day first when the month is at most 12,
\* swapped when the month is above 12 and the day is at most 12
ReadingOf(v) ==
    IF v.m <= 12 THEN Iso(numericYearOf(v), v.m, v.d)
    ELSE IF v.d <= 12 THEN Iso(numericYearOf(v), v.d, v.m)
    ELSE Iso(numericYearOf(v), v.m, v.d)

\* what normalization owes for a European numeric text: its reading when
\* that is a date the calendar has, and nothing otherwise
OwedFor(v, absent) == IF CalendarDate(ReadingOf(v)) THEN ReadingOf(v) ELSE absent

\* C16 as stated: for a European numeric text, parseTextValue and
\* convertEuropeanToISO return the day-first reading, or the swapped one when
\* the month is above 12 and the day is not, when that reading is a date of
\* the calendar; otherwise they return nothing (the empty string, the text
\* unchanged).
C16_DayFirstOrSwapped ==
    /\ (Parsed /\ NumericText) => parsedText = OwedFor(text, Empty)
    /\ (pc \in {"converted", "monthEnd"} /\ NumericText)
       => converted = OwedFor(text, text)

\* the text is a bare month name
MonthNameText == text.fmt = "mon"

\* C17: for a bare month name, 3-letter or full and in any case, and any
\* year, parseTextValue gives day 1 of the month in the start field and the
\* last calendar day of the month in the end field (28 or 29 for February),
\* and the end-field day is the day convertMonthToEndDate gives.
C17_MonthNameDays ==
    /\ (Parsed /\ MonthNameText /\ ~isEndDateField)
       => parsedText = Iso(textCurrentYear, text.m, 1)
    /\ (Parsed /\ MonthNameText /\ isEndDateField)
       => parsedText = Iso(textCurrentYear, text.m,
                           DaysInMonth(textCurrentYear, text.m))
    /\ (pc = "monthEnd" /\ MonthNameText /\ isEndDateField)
       => (/\ IsEuropean(monthEnd)
           /\ monthEnd.d = parsedText.d
           /\ monthEnd.m = parsedText.m
           /\ monthEnd.y = parsedText.y % 100)

\* February, written in full and in mixed case, in the end field of a leap
\* year
C17_Witness ==
    /\ pc = "monthEnd"
    /\ text = Mon(2, "Full")
    /\ isEndDateField
    /\ IsLeapYear(textCurrentYear)
    /\ parsedText.d = 29
    /\ monthEnd.d = 29

\* February in the end field of a century year that is not a leap year
C17_WitnessCentury ==
    /\ pc = "monthEnd"
    /\ text.m = 2
    /\ MonthNameText
    /\ isEndDateField
    /\ textCurrentYear = CenturyYear
    /\ parsedText.d = 28

\* C18: a two-digit year YY of a European numeric text is read as 2000 + YY,
\* with no pivot, and a text without a year takes the roadmapYear given to
\* the call, by parseTextValue and by convertEuropeanToISO alike.
C18_YearOfNumericText ==
    /\ (Parsed /\ NumericText /\ Truthy(parsedText) /\ text.yl = 2)
       => parsedText.y = 2000 + text.y
    /\ (Parsed /\ NumericText /\ Truthy(parsedText) /\ text.yl = 0 /\ textYear # 0)
       => parsedText.y = textYear
    /\ (pc \in {"converted", "monthEnd"} /\ NumericText /\ IsISO(converted)
           /\ text.yl = 2)
       => converted.y = 2000 + text.y
    /\ (pc \in {"converted", "monthEnd"} /\ NumericText /\ IsISO(converted)
           /\ text.yl = 0 /\ textYear # 0)
       => converted.y = textYear

\* a text with the year 99, read as 2099 by both functions
C18_Witness ==
    /\ pc = "converted"
    /\ NumericText
    /\ text.yl = 2
    /\ text.y = 99
    /\ parsedText.y = 2099
    /\ IsISO(converted)
    /\ converted.y = 2099

\* C19 as stated: an ISO string YYYY-MM-DD of a date the calendar has comes
\* back unchanged from normalization, for every roadmapYear and in either
\* field: from parseTextValue, from convertEuropeanToISO, and as that date
\* from parseDateSafe.
C19_IsoRoundTrip ==
    /\ (Parsed /\ IsISO(text) /\ CalendarDate(text)) => parsedText = text
    /\ (pc \in {"converted", "monthEnd"} /\ IsISO(text) /\ CalendarDate(text))
       => (/\ converted = text
           /\ parseDateSafe(text) = MkDate(text.y, text.m, text.d))

\* C20 as stated: the generator has its roadmapYear, so the wall-clock year
\* has no say; the same story rendered again after the new year gets the
\* bar it had.
C20_ClockIndependent ==
    pc = "again" => bar = previous

\* C21 as stated: generateStory, generateEpic and generateBTLDateAddedBox
\* leave the story record as it was handed to them.
C21_RecordUnchanged ==
    pc \in {"story", "epic", "btl"} => story = input

\* C22: the same record rendered twice in succession, with the same
\* roadmapYear and search range, is given the same bar (start column, end
\* column, continuation flags) and the same annotation box both times.
C22_Idempotent ==
    pc = "epicAgain" => (bar = previous /\ box = previousBox)

\* a story of the year before, whose start date the first render rewrote,
\* rendered a second time with its annotation
C22_Witness ==
    /\ pc = "epicAgain"
    /\ story # input
    /\ input.startDate # story.startDate
    /\ bar.status = "ok"
    /\ box.status = "ok"
    /\ bar = previous
    /\ box = previousBox

\* the start of the story as a date: the start date, or the first day of the
\* start month in roadmapYear
TrueStart == rangeStartDate(input)

\* the end date of the story as a date
TrueEnd == Resolved(input.endDate)

\* the true start lies strictly before the displayed year or the start of
\* the search range
StartsOutside ==
    /\ TrueStart.valid
    /\ \/ TrueStart.y < roadmapYear
       \/ /\ searchRange.set
          /\ searchRange.startDate.valid
          /\ ~DateLE(searchRange.startDate, TrueStart)

\* the true end lies strictly after the displayed year or the end of the
\* search range
EndsOutside ==
    /\ TrueEnd.valid
    /\ \/ TrueEnd.y > roadmapYear
       \/ /\ searchRange.set
          /\ searchRange.endDate.valid
          /\ ~DateLE(TrueEnd, searchRange.endDate)

\* C23 as stated: the start is clamped to January's column and marked only
\* when the true start lies strictly before the year or the search range,
\* the end (a date the calendar has) is clamped to December's column + 10
\* and marked only when it lies strictly after them; a story that starts on the first day
\* of the search range and ends inside it is neither clamped nor marked.
C23_MarkedOnlyWhenOutside ==
    /\ (Rendered /\ (bar.startsBeforeRange \/ story._startsInPreviousYear))
       => StartsOutside
    /\ (Rendered /\ bar.continuesNextYear /\ RealDate(input.endDate))
       => EndsOutside
    /\ (Rendered /\ searchRange.set /\ TrueStart = searchRange.startDate
           /\ TrueEnd.valid /\ DateLE(TrueEnd, searchRange.endDate)
           /\ TrueEnd.y = roadmapYear)
       => (~bar.startsBeforeRange /\ ~bar.continuesNextYear)

\* an annotation box generateEpic has placed
EpicBox == pc = "epic" /\ box.status = "ok"

\* the box would fit beside the story: story end + 2 + width stays within 120
BoxFits == box.storyEndGrid + 2 + box.width <= MAX_COLUMNS

TableWidth(n) ==
    CASE n = 1 -> 16
      [] n = 2 -> 26
      [] n = 3 -> 38
      [] n = 4 -> 50
      [] n = 5 -> 62
      [] n = 6 -> 74
      [] n = 7 -> 85
      [] OTHER -> 85 + 12 * (n - 7)

\* C25: the width of an annotation box is a function of the number n >= 1 of
\* its items alone, 16, 26, 38, 50, 62, 74, 85 for 1..7 items and
\* 85 + 12 * (n - 7) beyond, wherever and whenever the story lies, and any
\* smaller count gives a strictly narrower box.
C25_WidthByItemCount ==
    EpicBox => /\ totalItems(input) >= 1
               /\ box.width = TableWidth(totalItems(input))
               /\ box.end - box.start = box.width
               /\ \A m \in 1..(totalItems(input) - 1) :
                      calculateTextBoxWidth(m) < box.width

C25_Witness ==
    /\ EpicBox
    /\ totalItems(input) = 9
    /\ input.startDate # None
    /\ box.width = 109

\* C26: for a story with an annotation, the start and end columns generateEpic
\* works out as the reference of the annotation placement are the start and
\* end columns of the bar generateStory drew for it.
C26_EpicAgreesWithBar ==
    (EpicBox /\ bar.status = "ok")
    => (box.storyStartGrid = bar.start /\ box.storyEndGrid = bar.end)

\* the end date of the most recent timeline change, where it names a day
EffectiveEndOfChanges == getEffectiveEndDate(input)

\* a drawn story whose most recent timeline change gives a day-level end date
\* other than the record's own, with no search range active
ChangedEnd ==
    /\ pc = "story"
    /\ bar.status = "ok"
    /\ ~searchRange.set
    /\ Len(input.changes) > 0
    /\ EffectiveEndOfChanges # Or(input.endDate, input.endMonth)
    /\ RealDate(EffectiveEndOfChanges)

\* C27: for a story with timeline changes the continuation mark and the end
\* column follow the effective end date: a newEndDate of the most recent
\* change in a year after roadmapYear gives a bar clamped to December's
\* base + 10 and marked as continuing, one inside roadmapYear gives a bar
\* that is not marked, whatever the record's endDate is.
C27_ContinuationFromEffectiveEnd ==
    ChangedEnd
    => /\ Resolved(EffectiveEndOfChanges).y > roadmapYear
          => (bar.continuesNextYear /\ bar.end = getGridPosition(DEC) + 10)
       /\ Resolved(EffectiveEndOfChanges).y = roadmapYear
          => ~bar.continuesNextYear

\* day-level end dates of the roadmap year to compare an end date with
EarlierEnds == {Iso(roadmapYear, m, d) : m \in 1..12, d \in {1, 2, 3, 4, 15, 26}}

\* a drawn story with an ISO end date inside the roadmap year, no timeline
\* changes and no search range
EndsThisYear ==
    /\ pc = "story"
    /\ bar.status = "ok"
    /\ ~searchRange.set
    /\ Len(input.changes) = 0
    /\ input.endDate.fmt = "iso"
    /\ RealDate(input.endDate)
    /\ input.endDate.y = roadmapYear

\* C28: within one roadmap year the end column does not decrease as the end
\* date grows: every day-level end date of the roadmap year on or before the
\* story's end date, 1-3 January included, gives an end column no greater
\* than the one the bar is drawn with.
C28_EndMonotone ==
    EndsThisYear
    => \A e1 \in EarlierEnds :
           DateLE(Resolved(e1), Resolved(input.endDate))
           => storyEndAt(bar.start, e1, TRUE) <= bar.end

\* the roles of the history alternate, beginning with the user
Alternates(h) ==
    \A i \in 1..Len(h) :
        h[i].role = IF i % 2 = 1 THEN "user" ELSE "assistant"

\* C29: whatever sendMessage calls have been made, answered or failed, one
\* at a time or overlapping, with setStoryContext and resetConversation in
\* between, the conversation history alternates user and assistant messages
\* beginning with a user message; with no request in flight no user message
\* is left unanswered; and no reply to a request issued before the history
\* was last emptied is in the history.
C29_HistoryAlternates ==
    /\ Alternates(conversationHistory)
    /\ pending = {} => Len(conversationHistory) % 2 = 0
    /\ \A i \in 1..Len(conversationHistory) :
           ~conversationHistory[i].beforeReset

\* C30: once the page has been loaded again after saveConfiguration calls,
\* the last of them with provider p and key k, the agent is configured with
\* p and k.
C30_ConfigurationRoundTrip ==
    (agentPc = "loaded" /\ lastSaved # NoConfiguration)
    => (apiProvider = lastSaved.provider /\ apiKey = lastSaved.apiKey)


====
